---- MODULE Spec2Model ----
(***************************************************************************)
(* gridpointer: the motion controller (src/src/motion.rs), the shared      *)
(* configuration it reads (src/src/config.rs) and the clock it measures    *)
(* segments against.                                                       *)
(*                                                                         *)
(* Numbers.                                                                *)
(*  - u32 values are held in two's complement: a value v < 2^31 is the     *)
(*    integer v, a value v >= 2^31 is the integer v - 2^32 (so 2^32-1 is   *)
(*    -1).  Addition of the encodings is addition modulo 2^32; the         *)
(*    unsigned order is ULess.                                             *)
(*  - f64 values are exact fractions <<n, d>> in lowest terms with d > 0,  *)
(*    plus the IEEE specials NaN = <<0,0>>, +inf = <<1,0>>, -inf = <<-1,0>>*)
(*    (rounding is not modelled).                                          *)
(*  - Instants and Durations are integers, in milliseconds.                *)
(***************************************************************************)
EXTENDS Integers, Naturals, Sequences, FiniteSets, TLC

VARIABLES
    config,              \* the Config behind Arc<RwLock<Config>>
    writer,              \* TRUE while watch_config holds the write lock
    state,               \* MotionController.state
    current_grid_pos,    \* MotionController.current_grid_pos
    current_screen_pos,  \* MotionController.current_screen_pos
    now,                 \* the monotonic clock read by Instant::now()/elapsed()
    overflow_checks,     \* the build: TRUE = overflow checks on (dev profile)
    panicked,            \* TRUE once an arithmetic overflow panic unwound the task
    op,                  \* history: the step performed last
    ev,                  \* history: the event given to the last handle_event
    ret,                 \* history: what the last call of update returned
    emitted,             \* history: the last position an update returned, if any
    pre,                 \* history: the controller, lock and clock just before that step
    completed,           \* history: update emitted the terminal position of the latest segment
    tick_time,           \* history: instant of the last update since the latest segment was installed
    ncmd,                \* number of handle_event calls so far
    nadv,                \* number of clock advances so far
    fn_in,               \* the arguments of the last call of a pure function
    fn_out,              \* what that call returned
    input_rx,            \* run: the channel from the input task to the loop
    motion_rx,           \* run: the channel of MotionEvents the loop sends itself
    shutdown_sent,       \* run: shutdown_tx.send(()) has been called
    main_pc,             \* run: where the main task is
    input_task,          \* InputManager::run: "running" or "finished"
    config_task,         \* watch_config: "running" or "finished"
    sink,                \* the move_cursor calls of the last step, with their results
    installed,           \* history: segments installed by the loop's commands
    replaced,            \* history: segments replaced before their completion
    terminals,           \* history: pushes made by a completing update
    waited,              \* history: a tick ran while the last command was queued
    lpre,                \* history: the two channels just before the last step
    due,                 \* timer: period boundaries passed since the last tick was delivered
    ticks_now,           \* history: updates the timer caused at the present instant
    stalled,             \* history: the value of `due` when the last tick was taken
    sent,                \* history: the Move inputs the input task sent, as MotionEvents
    applied              \* history: the events the loop gave to handle_event

\* the controller, the configuration lock and the clock
ctl == <<config, writer, state, current_grid_pos, current_screen_pos, now,
         overflow_checks, panicked, op, ev, ret, emitted, pre, completed,
         tick_time,
         ncmd, nadv>>

\* calls of the pure functions on their own
pure == <<fn_in, fn_out>>

\* the driving loop and its tasks
loop == <<input_rx, motion_rx, shutdown_sent, main_pc, input_task, config_task,
          sink, installed, replaced, terminals, waited, lpre>>

\* the interval timer on its own
timer == <<due, ticks_now, stalled>>

\* what the input task sent and what the loop applied
order == <<sent, applied>>

vars == <<ctl, pure, loop, timer, order>>

(***************************************************************************)
(* Bounds of the model.                                                    *)
(***************************************************************************)
MaxCommands == 3
MaxAdvances == 2
MaxGrid == 3
MaxQueue == 1
MaxMoves == 2
EaseSteps == 8
MaxSegments == 2

\* The amounts (ms) by which the clock is seen to advance between two operations.
ClockSteps == {50}

(***************************************************************************)
(* u32 arithmetic (two's complement encoding).                             *)
(***************************************************************************)
ULess(a, b) == IF (a >= 0) = (b >= 0) THEN a < b ELSE a >= 0

UMin(a, b) == IF ULess(b, a) THEN b ELSE a

\* a + b modulo 2^32
wrapping_add(a, b) == a + b

\* a + b does not fit in 32 bits
add_overflows(a, b) == ULess(wrapping_add(a, b), a)

saturating_sub(a, b) == IF ULess(a, b) THEN 0 ELSE a - b

(***************************************************************************)
(* f64 arithmetic.                                                         *)
(***************************************************************************)
NaN == <<0, 0>>

Abs(n) == IF n < 0 THEN 0 - n ELSE n

Sgn(n) == IF n < 0 THEN 0 - 1 ELSE IF n > 0 THEN 1 ELSE 0

RECURSIVE GCD(_, _)
GCD(a, b) == IF b = 0 THEN a ELSE GCD(b, a % b)

\* the fraction n/d, d >= 0, in lowest terms; n/0 is NaN or an infinity
Frac(n, d) ==
    IF d = 0 THEN <<Sgn(n), 0>>
    ELSE LET g == GCD(Abs(n), d) IN <<n \div g, d \div g>>

IsNaN(a) == a = NaN

IsInf(a) == a[2] = 0 /\ a[1] # 0

FNeg(a) == <<0 - a[1], a[2]>>

FAdd(a, b) ==
    IF IsNaN(a) \/ IsNaN(b) THEN NaN
    ELSE IF IsInf(a) THEN (IF IsInf(b) /\ b # a THEN NaN ELSE a)
    ELSE IF IsInf(b) THEN b
    ELSE Frac(a[1] * b[2] + b[1] * a[2], a[2] * b[2])

FSub(a, b) == FAdd(a, FNeg(b))

FMul(a, b) ==
    IF IsNaN(a) \/ IsNaN(b) THEN NaN
    ELSE IF IsInf(a) \/ IsInf(b) THEN <<Sgn(a[1]) * Sgn(b[1]), 0>>
    ELSE Frac(a[1] * b[1], a[2] * b[2])

\* a <= b on f64: false when either side is NaN
FLeq(a, b) ==
    /\ ~IsNaN(a)
    /\ ~IsNaN(b)
    /\ IF IsInf(a) \/ IsInf(b)
       THEN a = b \/ a = <<0 - 1, 0>> \/ b = <<1, 0>>
       ELSE a[1] * b[2] <= b[1] * a[2]

\* f64::clamp(0.0, 1.0): NaN stays NaN
Clamp01(t) ==
    IF IsNaN(t) THEN NaN
    ELSE IF ~FLeq(<<0, 1>>, t) THEN <<0, 1>>
    ELSE IF ~FLeq(t, <<1, 1>>) THEN <<1, 1>>
    ELSE t

\* Cubic ease-out: 1 - (1 - t)^3 with t clamped to [0, 1]
ease_out_cubic_ease_in(t) ==
    LET c == Clamp01(t)
    IN FMul(c, FMul(c, c))

ease_out_cubic(t) ==
    LET c == Clamp01(t)
        u == FSub(<<1, 1>>, c)
    IN FSub(<<1, 1>>, FMul(u, FMul(u, u)))

(***************************************************************************)
(* Configuration (src/src/config.rs).  Every configuration has cols >= 1   *)
(* and rows >= 1.  dash_cells = -1 is the u32 value 2^32 - 1.              *)
(***************************************************************************)
Cfg(c, r, d, t) == [cols |-> c, rows |-> r, dash_cells |-> d, tween_ms |-> t]

ConfigSet ==
    { Cfg(10, 10, 3, 100),       \* tests::test_motion_controller, test_basic_movement
      Cfg(5, 5, 10, 100),        \* test_boundary_conditions
      Cfg(4, 3, 0 - 1, 100),     \* dash_cells = u32::MAX
      Cfg(1, 3, 2, 50),          \* a single column
      Cfg(3, 1, 0, 0) }          \* a single row, no dash distance, no tween

Directions == {"Up", "Down", "Left", "Right"}

\* MotionEvent
MotionEvents == [kind : {"Move", "Dash"}, direction : Directions]

NoEvent == [kind |-> "None"]

(***************************************************************************)
(* MotionState, Option<(f64, f64)>                                         *)
(***************************************************************************)
Idle == [kind |-> "Idle"]

Moving(f, t, s, d) ==
    [kind |-> "Moving", from |-> f, to |-> t, start_time |-> s, duration |-> d]

None == [tag |-> "None"]

Some(p) == [tag |-> "Some", val |-> p]

(***************************************************************************)
(* MotionController helpers                                                *)
(***************************************************************************)
\* The u32 addition of apply_direction overflows (Down and Right only;
\* Up and Left use saturating_sub).
apply_direction_overflows(pos, direction, distance) ==
    \/ direction = "Down" /\ add_overflows(pos[2], distance)
    \/ direction = "Right" /\ add_overflows(pos[1], distance)

apply_direction_unclamped(pos, direction, distance, cfg) ==
    LET x == pos[1]
        y == pos[2]
    IN CASE direction = "Up" -> <<x, saturating_sub(y, distance)>>
         [] direction = "Down" -> <<x, wrapping_add(y, distance)>>
         [] direction = "Left" -> <<saturating_sub(x, distance), y>>
         [] direction = "Right" -> <<wrapping_add(x, distance), y>>

apply_direction(pos, direction, distance, cfg) ==
    LET x == pos[1]
        y == pos[2]
    IN CASE direction = "Up" -> <<x, saturating_sub(y, distance)>>
         [] direction = "Down" -> <<x, UMin(wrapping_add(y, distance), cfg.rows - 1)>>
         [] direction = "Left" -> <<saturating_sub(x, distance), y>>
         [] direction = "Right" -> <<UMin(wrapping_add(x, distance), cfg.cols - 1), y>>

grid_to_screen(grid_pos, cfg) ==
    <<Frac(grid_pos[1], cfg.cols - 1), Frac(grid_pos[2], cfg.rows - 1)>>

Magnitude_at_startup(event, cfg) ==
    IF event.kind = "Move" THEN 1 ELSE Cfg(10, 10, 3, 100).dash_cells

\* The distance a command asks for: 1 for Move, dash_cells for Dash.
Magnitude(event, cfg) ==
    IF event.kind = "Move" THEN 1 ELSE cfg.dash_cells

\* from + (to - from) * eased_progress, on one axis
Lerp(from, to, eased_progress) ==
    FAdd(from, FMul(FSub(to, from), eased_progress))

Interpolate_linear(seg, elapsed) ==
    LET progress == Clamp01(Frac(elapsed, seg.duration))
    IN <<Lerp(seg.from[1], seg.to[1], progress),
         Lerp(seg.from[2], seg.to[2], progress)>>

\* The position update computes for a segment after `elapsed` ms, elapsed < duration.
Interpolate(seg, elapsed) ==
    LET progress == Frac(elapsed, seg.duration)
        eased_progress == ease_out_cubic(progress)
    IN <<Lerp(seg.from[1], seg.to[1], eased_progress),
         Lerp(seg.from[2], seg.to[2], eased_progress)>>

(***************************************************************************)
(* History                                                                 *)
(***************************************************************************)
Snapshot ==
    [state |-> state, grid_pos |-> current_grid_pos,
     screen_pos |-> current_screen_pos, writer |-> writer, now |-> now,
     config |-> config, completed |-> completed, tick_time |-> tick_time]

Record(o, e) ==
    /\ op' = o
    /\ ev' = e
    /\ pre' = Snapshot

(***************************************************************************)
(* MotionController::new, with the configuration loaded at start-up.       *)
(***************************************************************************)
NoCall == <<>>

PureIdle ==
    /\ fn_in = NoCall
    /\ fn_out = NoCall

\* the timer is not part of the run
NoOrder ==
    /\ sent = <<>>
    /\ applied = <<>>

NoTimer ==
    /\ due = 0
    /\ ticks_now = 0
    /\ stalled = 0

\* the driving loop is not part of the run
NoLoop ==
    /\ input_rx = <<>>
    /\ motion_rx = <<>>
    /\ shutdown_sent = FALSE
    /\ main_pc = "none"
    /\ input_task = "none"
    /\ config_task = "none"
    /\ sink = <<>>
    /\ installed = 0
    /\ replaced = 0
    /\ terminals = 0
    /\ waited = FALSE
    /\ lpre = [input_rx |-> <<>>, motion_rx |-> <<>>]

Start(configs, builds) ==
    /\ config \in configs
    /\ writer = FALSE
    /\ state = Idle
    /\ current_grid_pos = <<0, 0>>
    /\ current_screen_pos = <<Frac(1, 2), Frac(1, 2)>>
    /\ now = 0
    /\ overflow_checks \in builds
    /\ panicked = FALSE
    /\ op = "new"
    /\ ev = NoEvent
    /\ ret = None
    /\ emitted = <<>>
    /\ completed = FALSE
    /\ tick_time = <<>>
    /\ pre = [state |-> Idle, grid_pos |-> <<0, 0>>,
              screen_pos |-> <<Frac(1, 2), Frac(1, 2)>>, writer |-> FALSE,
              now |-> 0, config |-> config, completed |-> FALSE,
              tick_time |-> <<>>]
    /\ ncmd = 0
    /\ nadv = 0

Init ==
    /\ Start(ConfigSet, BOOLEAN)
    /\ PureIdle
    /\ NoLoop
    /\ NoTimer
    /\ NoOrder

(***************************************************************************)
(* MotionController::handle_event                                          *)
(***************************************************************************)
TryRead_ignores_writer == TRUE

\* self.config.try_read() succeeds unless the writer holds the lock
TryRead == ~writer

CellChanged_always(new_grid_pos) == TRUE

\* if new_grid_pos != self.current_grid_pos
CellChanged(new_grid_pos) == new_grid_pos # current_grid_pos

SegmentFrom_grid_cell == grid_to_screen(current_grid_pos, config)

SegmentFrom_stale_target ==
    IF state.kind = "Moving" THEN state.to ELSE current_screen_pos

\* let from = self.current_screen_pos
SegmentFrom == current_screen_pos

SegmentStart_kept ==
    IF state.kind = "Moving" THEN state.start_time ELSE now

\* start_time: Instant::now()
SegmentStart == now

\* the u32 addition overflows and the build checks overflow: the call panics
Panics(event) ==
    /\ overflow_checks
    /\ apply_direction_overflows(current_grid_pos, event.direction,
                                 Magnitude(event, config))

handle_event(event) ==
    /\ ~panicked
    /\ ncmd < MaxCommands
    /\ ncmd' = ncmd + 1
    /\ Record("handle_event", event)
    /\ IF ~TryRead
       THEN UNCHANGED <<state, current_grid_pos, current_screen_pos, panicked,
                        completed, tick_time>>
       ELSE IF Panics(event)
       THEN /\ panicked' = TRUE
            /\ UNCHANGED <<state, current_grid_pos, current_screen_pos,
                           completed, tick_time>>
       ELSE LET new_grid_pos == apply_direction(current_grid_pos, event.direction,
                                                Magnitude(event, config), config)
                duration == config.tween_ms
                to == grid_to_screen(new_grid_pos, config)
            IN IF CellChanged(new_grid_pos)
               THEN /\ state' = Moving(SegmentFrom, to, SegmentStart, duration)
                    /\ current_grid_pos' = new_grid_pos
                    /\ completed' = FALSE
                    /\ tick_time' = <<>>
                    /\ UNCHANGED <<current_screen_pos, panicked>>
               ELSE UNCHANGED <<state, current_grid_pos, current_screen_pos,
                                panicked, completed, tick_time>>
    /\ UNCHANGED <<config, writer, now, overflow_checks, ret, emitted, nadv>>

(***************************************************************************)
(* MotionController::update                                                *)
(***************************************************************************)
IdleResult_position == Some(current_screen_pos)

\* MotionState::Idle => None
IdleResult == None

Expired_strict(elapsed, duration) == elapsed > duration

Expired_exact(elapsed, duration) == elapsed = duration

Expired_positive(elapsed, duration) == duration > 0 /\ elapsed >= duration

Expired_within_a_tick(elapsed, duration) == 2 * elapsed >= duration

Expired_unless_locked(elapsed, duration) == ~writer /\ elapsed >= duration

\* if elapsed >= *duration
Expired(elapsed, duration) == elapsed >= duration

SegmentDuration_from_config(seg) == config.tween_ms

\* the `duration` bound by the match on MotionState::Moving
SegmentDuration(seg) == seg.duration

CompletedState_still_moving == state

\* self.state = MotionState::Idle
CompletedState == Idle

update ==
    /\ ~panicked
    /\ Record("update", NoEvent)
    /\ IF state.kind = "Idle"
       THEN /\ ret' = IdleResult
            /\ UNCHANGED <<state, current_screen_pos, emitted, completed,
                           tick_time>>
       ELSE LET elapsed == now - state.start_time
                seg == [state EXCEPT !.duration = SegmentDuration(state)]
            IN IF Expired(elapsed, seg.duration)
               THEN /\ current_screen_pos' = state.to
                    /\ state' = CompletedState
                    /\ ret' = Some(state.to)
                    /\ emitted' = <<state.to>>
                    /\ completed' = TRUE
                    /\ tick_time' = <<now>>
               ELSE LET p == Interpolate(seg, elapsed)
                    IN /\ current_screen_pos' = p
                       /\ ret' = Some(p)
                       /\ emitted' = <<p>>
                       /\ tick_time' = <<now>>
                       /\ UNCHANGED <<state, completed>>
    /\ UNCHANGED <<config, writer, current_grid_pos, now, overflow_checks,
                   panicked, ncmd, nadv>>

(***************************************************************************)
(* The clock                                                               *)
(***************************************************************************)
Advance(d) ==
    /\ ~panicked
    /\ nadv < MaxAdvances
    /\ nadv' = nadv + 1
    /\ now' = now + d
    /\ Record("advance", NoEvent)
    /\ UNCHANGED <<config, writer, state, current_grid_pos, current_screen_pos,
                   overflow_checks, panicked, ret, emitted, completed,
                   tick_time, ncmd>>

(***************************************************************************)
(* ConfigManager::watch_config: `*config.write().await = new_config`.      *)
(* The watcher reloads on every Modify event in the configuration          *)
(* directory; here the file read back holds the configuration unchanged.   *)
(***************************************************************************)
WriteLock ==
    /\ ~panicked
    /\ ~writer
    /\ writer' = TRUE
    /\ Record("write_lock", NoEvent)
    /\ UNCHANGED <<config, state, current_grid_pos, current_screen_pos, now,
                   overflow_checks, panicked, ret, emitted, completed,
                   tick_time, ncmd,
                   nadv>>

WriteUnlock ==
    /\ ~panicked
    /\ writer
    /\ writer' = FALSE
    /\ config' = config
    /\ Record("write_unlock", NoEvent)
    /\ UNCHANGED <<state, current_grid_pos, current_screen_pos, now,
                   overflow_checks, panicked, ret, emitted, completed,
                   tick_time, ncmd,
                   nadv>>

Next ==
    \/ \E event \in MotionEvents : handle_event(event) /\ UNCHANGED <<pure, loop, timer, order>>
    \/ update /\ UNCHANGED <<pure, loop, timer, order>>
    \/ \E d \in ClockSteps : Advance(d) /\ UNCHANGED <<pure, loop, timer, order>>
    \/ WriteLock /\ UNCHANGED <<pure, loop, timer, order>>
    \/ WriteUnlock /\ UNCHANGED <<pure, loop, timer, order>>

Spec == Init /\ [][Next]_vars

(***************************************************************************)
(* Hot reload: watch_config writes a configuration read back from the      *)
(* file, which may differ from the current one in every field.  The        *)
(* process starts on the 10x10 grid; no addition overflows with these      *)
(* configurations, so the two builds behave alike and one is explored.     *)
(***************************************************************************)
ReloadConfigs ==
    { Cfg(10, 10, 3, 100),
      Cfg(3, 2, 1, 50) }

\* *config.write().await = new_config
Reload(new_config) ==
    /\ ~panicked
    /\ writer
    /\ writer' = FALSE
    /\ config' = new_config
    /\ Record("write_unlock", NoEvent)
    /\ UNCHANGED <<state, current_grid_pos, current_screen_pos, now,
                   overflow_checks, panicked, ret, emitted, completed,
                   tick_time, ncmd,
                   nadv>>

InitReload ==
    /\ Start({Cfg(10, 10, 3, 100)}, {FALSE})
    /\ PureIdle
    /\ NoLoop
    /\ NoTimer
    /\ NoOrder

NextReload ==
    \/ \E event \in MotionEvents : handle_event(event) /\ UNCHANGED <<pure, loop, timer, order>>
    \/ update /\ UNCHANGED <<pure, loop, timer, order>>
    \/ \E d \in ClockSteps : Advance(d) /\ UNCHANGED <<pure, loop, timer, order>>
    \/ WriteLock /\ UNCHANGED <<pure, loop, timer, order>>
    \/ \E c \in ReloadConfigs : Reload(c) /\ UNCHANGED <<pure, loop, timer, order>>

SpecReload == InitReload /\ [][NextReload]_vars

(***************************************************************************)
(* The pure functions on their own: apply_direction on every in-grid       *)
(* position of every grid up to MaxGrid x MaxGrid, with small distances    *)
(* and distances just below 2^32, in both builds; ease_out_cubic on the    *)
(* points k/EaseSteps and on the points its tests use.                     *)
(***************************************************************************)
Grids == { Cfg(c, r, 1, 0) : c \in 1..MaxGrid, r \in 1..MaxGrid }

Distances == (0..(MaxGrid + 1)) \cup { 0 - k : k \in 1..MaxGrid }

EasePoints ==
    { Frac(k, EaseSteps) : k \in 0..EaseSteps }
        \cup { Frac(1, 5), Frac(3, 10), Frac(1, 2), Frac(7, 10) }

Panic == [tag |-> "Panic"]

Ok(v) == [tag |-> "Ok", val |-> v]

CallApplyDirection(pos, direction, distance, cfg, build) ==
    /\ PureIdle
    /\ fn_in' = [f |-> "apply_direction", pos |-> pos, direction |-> direction,
                 distance |-> distance, cfg |-> cfg, overflow_checks |-> build]
    /\ fn_out' = IF build /\ apply_direction_overflows(pos, direction, distance)
                 THEN Panic
                 ELSE Ok(apply_direction(pos, direction, distance, cfg))
    /\ UNCHANGED <<ctl, loop, timer, order>>

CallEase(p, q) ==
    /\ PureIdle
    /\ fn_in' = [f |-> "ease_out_cubic", p |-> p, q |-> q]
    /\ fn_out' = <<ease_out_cubic(p), ease_out_cubic(q)>>
    /\ UNCHANGED <<ctl, loop, timer, order>>

Return ==
    /\ ~PureIdle
    /\ fn_in' = NoCall
    /\ fn_out' = NoCall
    /\ UNCHANGED <<ctl, loop, timer, order>>

InitPure ==
    /\ Start({Cfg(10, 10, 3, 100)}, {FALSE})
    /\ PureIdle
    /\ NoLoop
    /\ NoTimer
    /\ NoOrder

NextPure ==
    \/ \E cfg \in Grids, direction \in Directions, distance \in Distances,
          build \in BOOLEAN :
          \E pos \in (0..(cfg.cols - 1)) \X (0..(cfg.rows - 1)) :
             CallApplyDirection(pos, direction, distance, cfg, build)
    \/ \E p \in EasePoints, q \in EasePoints : CallEase(p, q)
    \/ Return

SpecPure == InitPure /\ [][NextPure]_vars

(***************************************************************************)
(* GridPointer::run: the main task selects among the input channel, the    *)
(* motion channel, the 360 Hz timer and the shutdown broadcast; the input  *)
(* task and the configuration watcher run beside it.  One select branch    *)
(* runs to its end before the next select.  The clock of the model is      *)
(* coarser than the timer period, so a tick is ready at every select.      *)
(***************************************************************************)
LoopConfig == Cfg(3, 3, 2, 100)

MoveInput(direction, dash) ==
    [kind |-> "Move", direction |-> direction, dash |-> dash]

Click == [kind |-> "Click"]

Quit == [kind |-> "Quit"]

\* what the devices produce in the runs explored
LoopInputs == { MoveInput("Right", FALSE), Click, Quit }

\* InputEvent::Move { direction, dash } => MotionEvent
ToMotion(e) ==
    [kind |-> IF e.dash THEN "Dash" ELSE "Move", direction |-> e.direction]

\* an element of the motion channel; `ticked` is history: an update ran
\* while the element was queued
Queued(event) == [event |-> event, ticked |-> FALSE]

Forward_front(queue, event) == <<Queued(event)>> \o queue

Forward_twice(queue, event) == queue \o <<Queued(event), Queued(event)>>

\* motion_tx.send(motion_event)
Forward(queue, event) == Append(queue, Queued(event))

Ticked(queue) == [i \in 1..Len(queue) |-> [queue[i] EXCEPT !.ticked = TRUE]]

MovesIn(queue) == Cardinality({ i \in 1..Len(queue) : queue[i].kind = "Move" })

SinkCalls_retried(result) ==
    IF result.tag = "Some" THEN <<result.val, result.val>> ELSE <<>>

\* if let Some(position) = self.motion_controller.update() { move_cursor(..) }
SinkCalls(result) == IF result.tag = "Some" THEN <<result.val>> ELSE <<>>

\* Result<()> of move_cursor.  The body in wl.rs returns Ok(()) on every
\* path; the loop handles both values of the type, and both are explored.
SinkResults == {"Ok", "Err"}

OnSinkError_propagates == "join_input"

\* if let Err(e) = move_cursor(..).await { warn!(..) }: the loop goes on
OnSinkError == "select"

AfterShutdown_continue == "select"

\* the shutdown branch: break
AfterShutdown == "join_input"

LoopRecord == lpre' = [input_rx |-> input_rx, motion_rx |-> motion_rx]

InitLoop ==
    /\ Start({LoopConfig}, {FALSE})
    /\ PureIdle
    /\ input_rx = <<>>
    /\ motion_rx = <<>>
    /\ shutdown_sent = FALSE
    /\ main_pc = "select"
    /\ input_task = "running"
    /\ config_task = "running"
    /\ sink = <<>>
    /\ installed = 0
    /\ replaced = 0
    /\ terminals = 0
    /\ waited = FALSE
    /\ lpre = [input_rx |-> <<>>, motion_rx |-> <<>>]
    /\ NoTimer
    /\ NoOrder

Poll_direct(e) ==
    /\ input_task = "running"
    /\ e.kind = "Move"
    /\ handle_event(ToMotion(e))
    /\ sent' = Append(sent, ToMotion(e))
    /\ applied' = Append(applied, ev')
    /\ LoopRecord
    /\ UNCHANGED <<pure, timer>>
    /\ sink' = <<>>
    /\ UNCHANGED <<input_rx, motion_rx, shutdown_sent, main_pc, input_task,
                   config_task, installed, replaced, terminals, waited>>

\* InputManager::run, the poll_timer branch: poll_events sends an event
Poll(e) ==
    /\ input_task = "running"
    /\ Len(input_rx) < MaxQueue
    /\ e.kind = "Move" => ncmd + Len(motion_rx) + MovesIn(input_rx) < MaxMoves
    /\ input_rx' = Append(input_rx, e)
    /\ sent' = IF e.kind = "Move" THEN Append(sent, ToMotion(e)) ELSE sent
    /\ Record("poll", e)
    /\ LoopRecord
    /\ UNCHANGED <<pure, timer, applied>>
    /\ sink' = <<>>
    /\ UNCHANGED <<config, writer, state, current_grid_pos, current_screen_pos,
                   now, overflow_checks, panicked, ret, emitted, completed,
                   tick_time,
                   ncmd, nadv>>
    /\ UNCHANGED <<motion_rx, shutdown_sent, main_pc, input_task, config_task,
                   installed, replaced, terminals, waited>>

\* InputManager::run, the shutdown branch
InputExit ==
    /\ input_task = "running"
    /\ shutdown_sent
    /\ input_task' = "finished"
    /\ Record("input_exit", NoEvent)
    /\ LoopRecord
    /\ UNCHANGED <<pure, timer, order>>
    /\ sink' = <<>>
    /\ UNCHANGED <<config, writer, state, current_grid_pos, current_screen_pos,
                   now, overflow_checks, panicked, ret, emitted, completed,
                   tick_time,
                   ncmd, nadv>>
    /\ UNCHANGED <<input_rx, motion_rx, shutdown_sent, main_pc, config_task,
                   installed, replaced, terminals, waited>>

\* watch_config, the reload branch: `*config.write().await = new_config` is
\* one statement, the write guard is dropped at its end
WatchReload ==
    /\ config_task = "running"
    /\ ~writer
    /\ config' = config
    /\ Record("reload", NoEvent)
    /\ LoopRecord
    /\ UNCHANGED <<pure, timer, order>>
    /\ sink' = <<>>
    /\ UNCHANGED <<writer, state, current_grid_pos, current_screen_pos, now,
                   overflow_checks, panicked, ret, emitted, completed,
                   tick_time, ncmd,
                   nadv>>
    /\ UNCHANGED <<input_rx, motion_rx, shutdown_sent, main_pc, input_task,
                   config_task, installed, replaced, terminals, waited>>

\* watch_config, the shutdown branch
ConfigExit ==
    /\ config_task = "running"
    /\ shutdown_sent
    /\ config_task' = "finished"
    /\ Record("config_exit", NoEvent)
    /\ LoopRecord
    /\ UNCHANGED <<pure, timer, order>>
    /\ sink' = <<>>
    /\ UNCHANGED <<config, writer, state, current_grid_pos, current_screen_pos,
                   now, overflow_checks, panicked, ret, emitted, completed,
                   tick_time,
                   ncmd, nadv>>
    /\ UNCHANGED <<input_rx, motion_rx, shutdown_sent, main_pc, input_task,
                   installed, replaced, terminals, waited>>

\* time passes
Elapse(d) ==
    /\ Advance(d)
    /\ LoopRecord
    /\ UNCHANGED <<pure, timer, order>>
    /\ sink' = <<>>
    /\ UNCHANGED <<input_rx, motion_rx, shutdown_sent, main_pc, input_task,
                   config_task, installed, replaced, terminals, waited>>

\* Some(input_event) = input_rx.recv() => handle_input_event
InputBranch ==
    /\ main_pc = "select"
    /\ input_rx # <<>>
    /\ LET event == Head(input_rx)
       IN /\ input_rx' = Tail(input_rx)
          /\ motion_rx' = IF event.kind = "Move"
                          THEN Forward(motion_rx, ToMotion(event))
                          ELSE motion_rx
          /\ shutdown_sent' = (shutdown_sent \/ event.kind = "Quit")
          /\ Record("input", event)
    /\ LoopRecord
    /\ UNCHANGED <<pure, timer, order>>
    /\ sink' = <<>>
    /\ UNCHANGED <<config, writer, state, current_grid_pos, current_screen_pos,
                   now, overflow_checks, panicked, ret, emitted, completed,
                   tick_time,
                   ncmd, nadv>>
    /\ UNCHANGED <<main_pc, input_task, config_task, installed, replaced,
                   terminals, waited>>

\* Some(motion_event) = motion_rx.recv() => handle_motion_event
MotionBranch ==
    /\ main_pc = "select"
    /\ motion_rx # <<>>
    /\ handle_event(Head(motion_rx).event)
    /\ motion_rx' = Tail(motion_rx)
    /\ waited' = Head(motion_rx).ticked
    /\ installed' = IF state' # state THEN installed + 1 ELSE installed
    /\ replaced' = IF state' # state /\ state.kind = "Moving"
                   THEN replaced + 1
                   ELSE replaced
    /\ applied' = Append(applied, ev')
    /\ LoopRecord
    /\ UNCHANGED <<pure, timer, sent>>
    /\ sink' = <<>>
    /\ UNCHANGED <<input_rx, shutdown_sent, main_pc, input_task, config_task,
                   terminals>>

\* _ = update_timer.tick() => update, then move_cursor on Some(position)
TickBranch ==
    /\ main_pc = "select"
    /\ update
    /\ \E result \in SinkResults :
          /\ sink' = [i \in 1..Len(SinkCalls(ret')) |->
                         [pos |-> SinkCalls(ret')[i], result |-> result]]
          /\ main_pc' = IF ret'.tag = "Some" /\ result = "Err"
                        THEN OnSinkError
                        ELSE "select"
    /\ terminals' = IF state.kind = "Moving" /\ state'.kind = "Idle"
                    THEN terminals + 1
                    ELSE terminals
    /\ motion_rx' = Ticked(motion_rx)
    /\ LoopRecord
    /\ UNCHANGED <<pure, timer, order>>
    /\ UNCHANGED <<input_rx, shutdown_sent, input_task, config_task, installed,
                   replaced, waited>>

\* _ = shutdown_rx.recv() => break
ShutdownBranch ==
    /\ main_pc = "select"
    /\ shutdown_sent
    /\ main_pc' = AfterShutdown
    /\ Record("shutdown", NoEvent)
    /\ LoopRecord
    /\ UNCHANGED <<pure, timer, order>>
    /\ sink' = <<>>
    /\ UNCHANGED <<config, writer, state, current_grid_pos, current_screen_pos,
                   now, overflow_checks, panicked, ret, emitted, completed,
                   tick_time,
                   ncmd, nadv>>
    /\ UNCHANGED <<input_rx, motion_rx, shutdown_sent, input_task, config_task,
                   installed, replaced, terminals, waited>>

\* input_handle.await, then config_handle.await
Join ==
    /\ \/ /\ main_pc = "join_input"
          /\ input_task = "finished"
          /\ main_pc' = "join_config"
       \/ /\ main_pc = "join_config"
          /\ config_task = "finished"
          /\ main_pc' = "done"
    /\ Record("join", NoEvent)
    /\ LoopRecord
    /\ UNCHANGED <<pure, timer, order>>
    /\ sink' = <<>>
    /\ UNCHANGED <<config, writer, state, current_grid_pos, current_screen_pos,
                   now, overflow_checks, panicked, ret, emitted, completed,
                   tick_time,
                   ncmd, nadv>>
    /\ UNCHANGED <<input_rx, motion_rx, shutdown_sent, input_task, config_task,
                   installed, replaced, terminals, waited>>

NextLoop ==
    \/ \E e \in LoopInputs : Poll(e)
    \/ InputExit
    \/ WatchReload
    \/ ConfigExit
    \/ \E d \in ClockSteps : Elapse(d)
    \/ InputBranch
    \/ MotionBranch
    \/ TickBranch
    \/ ShutdownBranch
    \/ Join

SpecLoop == InitLoop /\ [][NextLoop]_vars

(***************************************************************************)
(* Scheduling.  tokio::select! polls its branches in random order, so a    *)
(* branch that stays ready is taken after finitely many selects: once the  *)
(* shutdown value is in the broadcast channel the shutdown branch of each  *)
(* of the three selects stays ready until it is taken.  The runtime keeps  *)
(* polling its tasks, so the two awaits of the clean-up return once the    *)
(* tasks have finished.                                                    *)
(***************************************************************************)
SpecLoopFair ==
    /\ SpecLoop
    /\ WF_vars(ShutdownBranch)
    /\ WF_vars(InputExit)
    /\ WF_vars(ConfigExit)
    /\ WF_vars(Join)

(***************************************************************************)
(* The 360 Hz timer of run: interval(period) with                           *)
(* MissedTickBehavior::Skip.  In this specification one step of the clock  *)
(* is one timer period, so every Stall passes one period boundary.  The    *)
(* first tick of an interval completes at once.  A tick taken late         *)
(* delivers one update; with Skip the boundaries missed meanwhile are      *)
(* dropped and the next tick is due at the next boundary.                  *)
(***************************************************************************)
MissedTicks_burst(missed) == missed - 1

\* update_timer.set_missed_tick_behavior(MissedTickBehavior::Skip)
MissedTicks(missed) == 0

InitTimer ==
    /\ Start({LoopConfig}, {FALSE})
    /\ PureIdle
    /\ NoLoop
    /\ due = 1
    /\ ticks_now = 0
    /\ stalled = 0
    /\ NoOrder

\* a command reaches the controller
Command(event) ==
    /\ handle_event(event)
    /\ UNCHANGED <<pure, loop, timer, order>>

\* _ = update_timer.tick() => update
TimerTick ==
    /\ due >= 1
    /\ update
    /\ due' = MissedTicks(due)
    /\ ticks_now' = ticks_now + 1
    /\ stalled' = due
    /\ UNCHANGED <<pure, loop, order>>

\* one timer period passes, with the loop waiting or starved
Stall(d) ==
    /\ Advance(d)
    /\ due' = due + 1
    /\ ticks_now' = 0
    /\ UNCHANGED <<stalled, pure, loop, order>>

NextTimer ==
    \/ \E event \in MotionEvents : Command(event)
    \/ TimerTick
    \/ \E d \in ClockSteps : Stall(d)

SpecTimer == InitTimer /\ [][NextTimer]_vars

(***************************************************************************)
(* The order of commands.  The input task sends two different movements    *)
(* and clicks; the loop forwards, applies and ticks in every order the     *)
(* select allows.                                                          *)
(***************************************************************************)
OrderInputs == { MoveInput("Right", FALSE), MoveInput("Down", TRUE), Click }

NextOrder ==
    \/ \E e \in OrderInputs : Poll(e)
    \/ \E d \in ClockSteps : Elapse(d)
    \/ InputBranch
    \/ MotionBranch
    \/ TickBranch

SpecOrder == InitLoop /\ [][NextOrder]_vars

(***************************************************************************)
(* A segment under a running clock.  While a segment is in flight time     *)
(* passes without a cap, one clock step at a time, until it lies past the  *)
(* end of the segment; update may be called at every instant or not at     *)
(* all, so any number of ticks can be skipped.  One configuration has      *)
(* tween_ms = 0.                                                           *)
(***************************************************************************)
TweenConfigs ==
    { Cfg(3, 3, 2, 100),
      Cfg(3, 2, 1, 0) }

\* commands that move right, move down and dash back to the left edge
TweenEvents ==
    { [kind |-> "Move", direction |-> "Right"],
      [kind |-> "Move", direction |-> "Down"],
      [kind |-> "Dash", direction |-> "Left"] }

InitTween ==
    /\ Start(TweenConfigs, {FALSE})
    /\ PureIdle
    /\ NoLoop
    /\ NoTimer
    /\ NoOrder

\* Some(event) = motion_rx.recv() => handle_event
Retarget(event) ==
    /\ ncmd < MaxSegments
    /\ Command(event)

\* _ = update_timer.tick() => update
Tick ==
    /\ update
    /\ UNCHANGED <<pure, loop, timer, order>>

\* the clock goes on while the segment has not been seen to end
Pass(d) ==
    /\ ~panicked
    /\ state.kind = "Moving"
    /\ now - state.start_time <= state.duration
    /\ now' = now + d
    /\ Record("advance", NoEvent)
    /\ UNCHANGED <<config, writer, state, current_grid_pos, current_screen_pos,
                   overflow_checks, panicked, ret, emitted, completed,
                   tick_time, ncmd, nadv>>
    /\ UNCHANGED <<pure, loop, timer, order>>

NextTween ==
    \/ \E event \in TweenEvents : Retarget(event)
    \/ Tick
    \/ \E d \in ClockSteps : Pass(d)

SpecTween == InitTween /\ [][NextTween]_vars

\* a tick of the timer that finds the segment's time used up
TickWhenDue ==
    /\ state.kind = "Moving"
    /\ Expired(now - state.start_time, SegmentDuration(state))
    /\ Tick

(***************************************************************************)
(* The premise of progress: the monotonic clock keeps advancing, and the   *)
(* timer branch of the loop keeps being taken (main.rs:90-96), so a        *)
(* segment whose time stays used up is eventually met by a tick.  Ticks    *)
(* before that instant are under no obligation: any of them may be         *)
(* skipped.                                                                *)
(***************************************************************************)
SpecTweenFair ==
    /\ SpecTween
    /\ WF_vars(TickWhenDue)
    /\ WF_vars(\E d \in ClockSteps : Pass(d))

(***************************************************************************)
(* Vocabulary of the properties                                            *)
(***************************************************************************)
\* pos lies in [0, cols-1] x [0, rows-1]
InGrid(pos, cfg) ==
    /\ 0 <= pos[1] /\ pos[1] <= cfg.cols - 1
    /\ 0 <= pos[2] /\ pos[2] <= cfg.rows - 1

\* clamp(pos + direction * distance, grid bounds) over the integers;
\* distance is a u32 (negative encodings are the values >= 2^31)
ClampedTarget(pos, direction, distance, cfg) ==
    LET x == pos[1]
        y == pos[2]
    IN CASE direction = "Up" ->
              <<x, IF ULess(y, distance) THEN 0 ELSE y - distance>>
         [] direction = "Down" ->
              <<x, IF ULess(cfg.rows - 1 - y, distance) THEN cfg.rows - 1 ELSE y + distance>>
         [] direction = "Left" ->
              <<IF ULess(x, distance) THEN 0 ELSE x - distance, y>>
         [] direction = "Right" ->
              <<IF ULess(cfg.cols - 1 - x, distance) THEN cfg.cols - 1 ELSE x + distance, y>>

\* the last step was a handle_event call that could read the configuration
Handled == op = "handle_event" /\ ~pre.writer

\* the controller's fields are what they were before the last step
ControllerUnchanged ==
    /\ state = pre.state
    /\ current_grid_pos = pre.grid_pos
    /\ current_screen_pos = pre.screen_pos

\* the time since the start of the segment that was active before the last step
PreElapsed == pre.now - pre.state.start_time

\* the position of segment seg after `elapsed` ms: what update returns then
PositionAt(seg, elapsed) ==
    IF elapsed >= seg.duration THEN seg.to ELSE Interpolate(seg, elapsed)

\* both coordinates of a screen position are finite numbers
IsFinite(p) == p[1][2] # 0 /\ p[2][2] # 0

\* the last step was a handle_event call that replaced a segment in flight
Retargeted ==
    /\ Handled
    /\ pre.state.kind = "Moving"
    /\ current_grid_pos # pre.grid_pos

(***************************************************************************)
(* C1: for a fixed grid (cols >= 1, rows >= 1), after every handle_event   *)
(* call in any sequence of Move/Dash events the grid position satisfies    *)
(* 0 <= col <= cols-1 and 0 <= row <= rows-1.                              *)
(***************************************************************************)
C1_GridPositionInBounds == InGrid(current_grid_pos, config)

\* a Dash that ran into the far edge of the grid and was clamped to it
C1_Witness ==
    /\ Handled
    /\ ev.kind = "Dash"
    /\ ev.direction = "Right"
    /\ config.dash_cells > 0
    /\ pre.grid_pos[1] + config.dash_cells > config.cols - 1
    /\ current_grid_pos[1] = config.cols - 1
    /\ current_grid_pos # pre.grid_pos

(***************************************************************************)
(* C2: handle_event computes the new grid position as                      *)
(* clamp(current + direction*magnitude, grid bounds), magnitude 1 for Move *)
(* and dash_cells for Dash: only the commanded axis changes, by exactly    *)
(* the magnitude when that stays inside the grid, else to the boundary.    *)
(***************************************************************************)
C2_TargetIsClamp ==
    Handled =>
        current_grid_pos =
            ClampedTarget(pre.grid_pos, ev.direction, Magnitude(ev, pre.config),
                          pre.config)

(***************************************************************************)
(* C3: when the configuration cannot be read (the writer holds the lock),  *)
(* handle_event drops the command: grid position, screen position and      *)
(* motion state are unchanged, nothing fails, and the command is not       *)
(* applied later when the lock is released.                                *)
(***************************************************************************)
C3_DroppedWhenLocked ==
    /\ (op = "handle_event" /\ pre.writer) => (ControllerUnchanged /\ ~panicked)
    /\ op = "write_unlock" => ControllerUnchanged

\* a command that would have moved the cell was dropped during a segment
C3_Witness ==
    /\ op = "handle_event"
    /\ pre.writer
    /\ state.kind = "Moving"
    /\ apply_direction(current_grid_pos, ev.direction, Magnitude(ev, config),
                       config) # current_grid_pos

C5_SomeIffMoving ==
    op = "update" =>
        /\ (ret.tag = "Some") <=> (pre.state.kind = "Moving")
        /\ pre.state.kind = "Idle" =>
              (ret = None /\ ControllerUnchanged /\ completed = pre.completed)

\* an update in mid-flight returned a position
C5_Witness ==
    /\ op = "update"
    /\ pre.state.kind = "Moving"
    /\ state.kind = "Moving"
    /\ ret.tag = "Some"

(***************************************************************************)
(* C6: update in state Moving with elapsed >= duration returns exactly the *)
(* segment's `to`, sets the current screen position to `to` and moves the  *)
(* state to Idle.                                                          *)
(***************************************************************************)
C6_CompletionSnapsToTarget ==
    (op = "update" /\ pre.state.kind = "Moving" /\ PreElapsed >= pre.state.duration)
    => /\ ret = Some(pre.state.to)
       /\ current_screen_pos = pre.state.to
       /\ state = Idle

\* a segment that was still short of its target completed exactly at its duration
C6_Witness ==
    /\ op = "update"
    /\ pre.state.kind = "Moving"
    /\ pre.state.duration > 0
    /\ PreElapsed = pre.state.duration
    /\ pre.screen_pos # pre.state.to
    /\ state = Idle

(***************************************************************************)
(* C7: once update has returned the terminal position of a segment, every  *)
(* later update returns None until handle_event installs a new segment,    *)
(* however many ticks occur and however much time passes.                  *)
(***************************************************************************)
C7_CompletionIdempotent ==
    (op = "update" /\ pre.completed)
    => (ret = None /\ completed /\ state = Idle)

\* an update after completion, later than the one that emitted the terminal position
C7_Witness ==
    /\ op = "update"
    /\ pre.completed
    /\ pre.now > pre.tick_time[1]
    /\ ret = None

(***************************************************************************)
(* C8 (Scenario A): fresh controller, grid 10x10, dash_cells 3, tween_ms   *)
(* 100.  Dash(Right) from (0,0) sets the grid position to (3,0); update at *)
(* elapsed 50 ms returns x = ease_out_cubic(0.5) * (3/9); update at        *)
(* elapsed >= 100 ms returns exactly (3/9, 0); later updates return None.  *)
(***************************************************************************)
C8_ScenarioA ==
    (pre.config = Cfg(10, 10, 3, 100) /\ ncmd = 1)
    => /\ (Handled /\ ev = [kind |-> "Dash", direction |-> "Right"])
             => current_grid_pos = <<3, 0>>
       /\ (op = "update" /\ current_grid_pos = <<3, 0>>)
             => /\ (pre.state.kind = "Moving" /\ PreElapsed = 50)
                      => ret.val[1] = FMul(ease_out_cubic(Frac(1, 2)), Frac(3, 9))
                /\ (pre.state.kind = "Moving" /\ PreElapsed >= 100)
                      => ret = Some(<<Frac(3, 9), Frac(0, 9)>>)
                /\ pre.completed => ret = None

(***************************************************************************)
(* C9: every command handled while Moving, with the configuration          *)
(* readable, re-targets at once: the active segment is replaced by a       *)
(* segment whose start_time is the instant of the command.                 *)
(***************************************************************************)
C9_AlwaysRetargets ==
    (Handled /\ pre.state.kind = "Moving" /\ ~panicked)
    => (state.kind = "Moving" /\ state.start_time = pre.now)

(***************************************************************************)
(* C9, amended: a command handled while Moving that changes the grid cell  *)
(* replaces the active segment by one that starts at the instant of the    *)
(* command, from the current screen position, towards the new cell, with   *)
(* the tween duration of the configuration; a command that leaves the grid *)
(* cell unchanged leaves the active segment untouched.                     *)
(***************************************************************************)
C9_RetargetsWhenCellChanges ==
    (op = "handle_event" /\ pre.state.kind = "Moving")
    => IF current_grid_pos # pre.grid_pos
       THEN state = Moving(pre.screen_pos,
                           grid_to_screen(current_grid_pos, pre.config),
                           pre.now, pre.config.tween_ms)
       ELSE state = pre.state

\* a segment replaced in mid-flight by one towards another cell
C9_Witness ==
    /\ Retargeted
    /\ PreElapsed > 0
    /\ PreElapsed < pre.state.duration
    /\ state.start_time = pre.now
    /\ state.to # pre.state.to

(***************************************************************************)
(* C10: when a command that changes the grid cell is handled while Moving, *)
(* the new segment's `from` is the old segment interpolated at the instant *)
(* of the command, wherever the command falls relative to the ticks.       *)
(* (Stated for segments between finite positions.)                         *)
(***************************************************************************)
C10_FromIsPositionAtCommand ==
    (Retargeted /\ IsFinite(pre.state.from) /\ IsFinite(pre.state.to))
    => state.from = PositionAt(pre.state, PreElapsed)

(***************************************************************************)
(* C10, amended: the new segment's `from` is the cached current screen     *)
(* position: the old segment interpolated at the instant of the last       *)
(* update since it was installed, or the old segment's `from` when no      *)
(* update has occurred since.                                              *)
(***************************************************************************)
C10_FromIsPositionAtLastTick ==
    Retargeted
    => state.from =
          IF pre.tick_time = <<>>
          THEN pre.state.from
          ELSE PositionAt(pre.state, pre.tick_time[1] - pre.state.start_time)

\* a command later than the last tick: `from` is the position emitted by that tick
C10_Witness ==
    /\ Retargeted
    /\ pre.tick_time # <<>>
    /\ pre.now > pre.tick_time[1]
    /\ pre.tick_time[1] > pre.state.start_time
    /\ state.from # pre.state.from
    /\ state.from # PositionAt(pre.state, PreElapsed)

(***************************************************************************)
(* C11: a segment's from, to, start_time and duration are frozen at the    *)
(* command that created it: a configuration change in flight alters none  *)
(* of them, and the segment completes at the tween duration read when the  *)
(* command was handled.                                                    *)
(***************************************************************************)
C11_SegmentFrozen ==
    /\ op \in {"write_lock", "write_unlock", "advance"} => state = pre.state
    /\ (op = "update" /\ pre.state.kind = "Moving")
          => IF PreElapsed >= pre.state.duration
             THEN state = Idle
             ELSE state = pre.state
    /\ (Handled /\ current_grid_pos # pre.grid_pos)
          => /\ state.duration = pre.config.tween_ms
             /\ state.to = grid_to_screen(current_grid_pos, pre.config)

\* tween_ms was lowered in flight below the elapsed time, and the segment ran on
C11_Witness ==
    /\ op = "update"
    /\ pre.state.kind = "Moving"
    /\ pre.config.tween_ms # pre.state.duration
    /\ PreElapsed >= pre.config.tween_ms
    /\ PreElapsed < pre.state.duration
    /\ state = pre.state

(***************************************************************************)
(* C12: in every reachable state, for every interleaving of commands,      *)
(* ticks and configuration reloads (cols >= 1, rows >= 1), the current     *)
(* screen position, the from and to of an active segment and every         *)
(* position update returns have both coordinates within [0, 1].            *)
(***************************************************************************)
InUnit(a) == FLeq(<<0, 1>>, a) /\ FLeq(a, <<1, 1>>)

InUnitSquare(p) == InUnit(p[1]) /\ InUnit(p[2])

C12_ScreenPositionsInUnitSquare ==
    /\ InUnitSquare(current_screen_pos)
    /\ state.kind = "Moving" => (InUnitSquare(state.from) /\ InUnitSquare(state.to))
    /\ ret.tag = "Some" => InUnitSquare(ret.val)

(***************************************************************************)
(* C13: also under hot reload, after every handle_event call that read     *)
(* configuration C the grid position lies in [0, C.cols-1] x [0, C.rows-1],*)
(* whichever direction the command had.                                    *)
(***************************************************************************)
C13_GridPositionInReloadedBounds ==
    (Handled /\ ~panicked) => InGrid(current_grid_pos, pre.config)

(***************************************************************************)
(* C14: clamping saturates over u32: for every in-grid position, every     *)
(* direction and every dash_cells in [0, 2^32-1], apply_direction yields   *)
(* the move clamped to the grid (the boundary coordinate when the move     *)
(* would leave it) and never overflows, wraps modulo 2^32 or aborts.       *)
(***************************************************************************)
C14_ApplyDirectionSaturates ==
    (fn_in # NoCall /\ fn_in.f = "apply_direction")
    => fn_out = Ok(ClampedTarget(fn_in.pos, fn_in.direction, fn_in.distance,
                                 fn_in.cfg))

(***************************************************************************)
(* C15: ease_out_cubic(p) = 1 - (1-p)^3 satisfies f(0) = 0, f(1) = 1,      *)
(* p < q implies f(p) < f(q) on [0,1], and f(p) > p for p in (0,1).        *)
(***************************************************************************)
FLess(a, b) == FLeq(a, b) /\ a # b

C15_EaseOutCubicShape ==
    (fn_in # NoCall /\ fn_in.f = "ease_out_cubic")
    => LET p == fn_in.p
           q == fn_in.q
           fp == fn_out[1]
           fq == fn_out[2]
       IN /\ p = <<0, 1>> => fp = <<0, 1>>
          /\ p = <<1, 1>> => fp = <<1, 1>>
          /\ FLess(p, q) => FLess(fp, fq)
          /\ (FLess(<<0, 1>>, p) /\ FLess(p, <<1, 1>>)) => FLess(p, fp)
          /\ fp = FSub(<<1, 1>>, FMul(FSub(<<1, 1>>, p),
                                      FMul(FSub(<<1, 1>>, p), FSub(<<1, 1>>, p))))

\* two interior points in order
C15_Witness ==
    /\ fn_in # NoCall
    /\ fn_in.f = "ease_out_cubic"
    /\ FLess(<<0, 1>>, fn_in.p)
    /\ FLess(fn_in.p, fn_in.q)
    /\ FLess(fn_in.q, <<1, 1>>)
    /\ FLess(fn_out[1], fn_out[2])

(***************************************************************************)
(* C16: ease_out_cubic(0.2) is less than 0.4, while ease_out_cubic(0.5) is *)
(* greater than 0.5.                                                       *)
(***************************************************************************)
C16_SlowerAtStart ==
    (fn_in # NoCall /\ fn_in.f = "ease_out_cubic")
    => /\ fn_in.p = Frac(1, 5) => FLess(fn_out[1], Frac(2, 5))
       /\ fn_in.p = Frac(1, 2) => FLess(Frac(1, 2), fn_out[1])

(***************************************************************************)
(* C17: the driving loop pushes a position to the display sink exactly     *)
(* once for every tick while a segment is active and nothing on a tick     *)
(* while Idle; for every segment installed by a command it pushes exactly  *)
(* one terminal position equal to the segment's target, segments replaced  *)
(* by a later command before their completion included.                    *)
(***************************************************************************)
Active == IF state.kind = "Moving" THEN 1 ELSE 0

OncePerActiveTick ==
    /\ op # "update" => sink = <<>>
    /\ (op = "update" /\ pre.state.kind = "Idle") => sink = <<>>
    /\ (op = "update" /\ pre.state.kind = "Moving")
          => /\ Len(sink) = 1
             /\ ret = Some(sink[1].pos)
             /\ state.kind = "Idle" => sink[1].pos = pre.state.to

\* as claimed: every installed segment that is no longer active was pushed
\* its terminal position
C17_TerminalForEverySegment ==
    /\ OncePerActiveTick
    /\ terminals + Active = installed

\* as amended: a replaced segment gets no terminal position
C17_TerminalUnlessReplaced ==
    /\ OncePerActiveTick
    /\ terminals + replaced + Active = installed

\* one segment was replaced, its successor completed
C17_Witness ==
    /\ op = "update"
    /\ state.kind = "Idle"
    /\ replaced = 1
    /\ terminals = 1
    /\ installed = 2
    /\ sink # <<>>

(***************************************************************************)
(* C18: when the loop receives a Move input event it immediately calls     *)
(* handle_event: no timer tick (update call) is processed between the      *)
(* loop's receipt of the input event and the handle_event call for it.     *)
(***************************************************************************)
\* as claimed
C18_NoTickBeforeCommand == op = "handle_event" => ~waited

\* as amended: the receipt only forwards the event to the motion channel;
\* handle_event is called by a later select, for the head of that channel
C18_ForwardedThenHandled ==
    /\ (op = "input" /\ ev.kind = "Move")
          => /\ state = pre.state
             /\ current_grid_pos = pre.grid_pos
             /\ current_screen_pos = pre.screen_pos
             /\ motion_rx = Append(lpre.motion_rx, Queued(ToMotion(ev)))
    /\ op = "handle_event"
          => /\ lpre.motion_rx # <<>>
             /\ ev = Head(lpre.motion_rx).event
             /\ waited = Head(lpre.motion_rx).ticked
             /\ motion_rx = Tail(lpre.motion_rx)

\* a command handled after a tick that ran while it was queued, with another
\* command queued behind it
C18_Witness ==
    /\ op = "handle_event"
    /\ waited
    /\ motion_rx # <<>>
    /\ current_grid_pos # pre.grid_pos

(***************************************************************************)
(* C19: a display-sink error on a tick never affects the motion state      *)
(* machine: the controller after a tick whose move_cursor call failed is   *)
(* as after the same tick with a successful call, the position is not      *)
(* retried, the loop keeps running, and later ticks produce the remaining  *)
(* positions of the segment.                                               *)
(***************************************************************************)
C19_SinkErrorHarmless ==
    (op = "update" /\ sink # <<>>)
    => /\ Len(sink) = 1
       /\ sink[1].result \in SinkResults
       /\ main_pc = "select"
       /\ sink[1].pos = PositionAt(pre.state, PreElapsed)
       /\ current_screen_pos = PositionAt(pre.state, PreElapsed)
       /\ state = IF PreElapsed >= pre.state.duration THEN Idle ELSE pre.state
       /\ current_grid_pos = pre.grid_pos

\* a failed push in the middle of a segment
C19_Witness ==
    /\ op = "update"
    /\ sink # <<>>
    /\ sink[1].result = "Err"
    /\ state.kind = "Moving"
    /\ main_pc = "select"

(***************************************************************************)
(* C20: once a shutdown signal has been sent the driving loop eventually   *)
(* exits under fair selection among ready branches, even with input        *)
(* events, motion events and ticks ready and a segment in flight; the      *)
(* input task and the watcher terminate too, and after the loop has        *)
(* exited no update or handle_event call is made.                          *)
(***************************************************************************)
Stopped ==
    /\ main_pc = "done"
    /\ input_task = "finished"
    /\ config_task = "finished"

ControllerTouched ==
    \/ state' # state
    \/ current_grid_pos' # current_grid_pos
    \/ current_screen_pos' # current_screen_pos
    \/ ncmd' # ncmd
    \/ ret' # ret

OtherTasksStill ==
    /\ input_task' = input_task
    /\ config_task' = config_task
    /\ input_rx' = input_rx
    /\ config' = config

C21_CallsFromLoopOnly ==
    [][/\ ControllerTouched => op' \in {"update", "handle_event"}
       /\ op' = "handle_event"
             => /\ main_pc = "select"
                /\ main_pc' = "select"
                /\ motion_rx # <<>>
                /\ ev' = Head(motion_rx).event
                /\ motion_rx' = Tail(motion_rx)
                /\ ncmd' = ncmd + 1
                /\ ret' = ret
                /\ emitted' = emitted
                /\ OtherTasksStill
       /\ op' = "update"
             => /\ main_pc = "select"
                /\ ncmd' = ncmd
                /\ current_grid_pos' = current_grid_pos
                /\ Len(motion_rx') = Len(motion_rx)
                /\ OtherTasksStill]_vars

\* a command handled by the loop while the other tasks are alive and an
\* input event is waiting
C21_Witness ==
    /\ op = "handle_event"
    /\ main_pc = "select"
    /\ input_task = "running"
    /\ config_task = "running"
    /\ input_rx # <<>>
    /\ state.kind = "Moving"
    /\ current_grid_pos # pre.grid_pos

(***************************************************************************)
(* C22: missed timer ticks are skipped, not replayed: after the loop has   *)
(* been stalled for k >= 2 timer periods it performs at most one catch-up  *)
(* update call before resuming the regular cadence, and the output of      *)
(* that update is computed from the time elapsed since the segment's       *)
(* start_time, so it is what a never-stalled loop would output then.       *)
(***************************************************************************)
C22_SkipNotBurst ==
    /\ ticks_now <= 1
    /\ op = "update"
          => /\ due = 0
             /\ ticks_now = 1
             /\ pre.state.kind = "Moving"
                   => /\ ret = Some(PositionAt(pre.state, PreElapsed))
                      /\ current_screen_pos = PositionAt(pre.state, PreElapsed)

\* the one update after a stall of two periods, in the middle of a segment
\* that was started after the previous tick
C22_Witness ==
    /\ op = "update"
    /\ stalled >= 2
    /\ ticks_now = 1
    /\ due = 0
    /\ pre.state.kind = "Moving"
    /\ PreElapsed > 0
    /\ ret = Some(PositionAt(pre.state, PreElapsed))

(***************************************************************************)
(* C23: hot-reload takes effect on the next issued command: each           *)
(* handle_event uses the grid dimensions, dash_cells and tween_ms that are *)
(* in the shared configuration at the moment the command is handled,       *)
(* never values read by an earlier command or tick.                        *)
(***************************************************************************)
C23_CommandUsesCurrentConfig ==
    (Handled /\ ~panicked)
    => LET cfg == pre.config
           distance == IF ev.kind = "Move" THEN 1 ELSE cfg.dash_cells
           target == apply_direction(pre.grid_pos, ev.direction, distance, cfg)
       IN /\ current_grid_pos = target
          /\ target # pre.grid_pos
                => state = Moving(pre.screen_pos, grid_to_screen(target, cfg),
                                  pre.now, cfg.tween_ms)
          /\ target = pre.grid_pos => state = pre.state

\* a Dash handled under the reloaded 3x2 configuration while a segment
\* installed under the 10x10 one is in flight
C23_Witness ==
    /\ Handled
    /\ ev.kind = "Dash"
    /\ pre.config = Cfg(3, 2, 1, 50)
    /\ pre.state.kind = "Moving"
    /\ pre.state.duration = 100
    /\ state.duration = 50
    /\ current_grid_pos # pre.grid_pos

(***************************************************************************)
(* C24: the target screen position of every installed segment is           *)
(* x = col/(cols-1), y = row/(rows-1) of the new grid position, and a      *)
(* coordinate whose grid dimension is 1 is exactly 0.0 rather than the     *)
(* result of a division by zero.                                           *)
(***************************************************************************)
Normalized(cell, cells) == IF cells = 1 THEN <<0, 1>> ELSE Frac(cell, cells - 1)

C24_DegenerateAxisIsZero ==
    (Handled /\ ~panicked /\ current_grid_pos # pre.grid_pos)
    => state.to = <<Normalized(current_grid_pos[1], pre.config.cols),
                    Normalized(current_grid_pos[2], pre.config.rows)>>

(***************************************************************************)
(* C25: update in state Moving with elapsed < duration returns             *)
(* from + (to - from) * e on each axis, where p = elapsed/duration clamped *)
(* to [0,1] and e = 1 - (1-p)^3, and sets the current screen position to   *)
(* the returned value.                                                     *)
(***************************************************************************)
One == <<1, 1>>

Cube(a) == FMul(a, FMul(a, a))

Eased(elapsed, duration) ==
    FSub(One, Cube(FSub(One, Clamp01(Frac(elapsed, duration)))))

Blend(from, to, e) == FAdd(from, FMul(FSub(to, from), e))

C25_InterpolatedOutput ==
    (op = "update" /\ pre.state.kind = "Moving" /\ PreElapsed < pre.state.duration)
    => LET seg == pre.state
           e == Eased(PreElapsed, seg.duration)
           position == <<Blend(seg.from[1], seg.to[1], e),
                         Blend(seg.from[2], seg.to[2], e)>>
       IN /\ ret = Some(position)
          /\ current_screen_pos = position

\* an output strictly inside the segment
C25_Witness ==
    /\ op = "update"
    /\ pre.state.kind = "Moving"
    /\ PreElapsed > 0
    /\ PreElapsed < pre.state.duration
    /\ IsFinite(ret.val)
    /\ ret.val # pre.state.from
    /\ ret.val # pre.state.to
    /\ current_screen_pos = ret.val

(***************************************************************************)
(* C26: update never changes the grid position, and an update with         *)
(* elapsed < duration leaves the segment's from, to, start_time and        *)
(* duration unchanged, modifying only the cached current screen position.  *)
(***************************************************************************)
C26_UpdateFrame ==
    op = "update"
    => /\ current_grid_pos = pre.grid_pos
       /\ config = pre.config
       /\ writer = pre.writer
       /\ now = pre.now
       /\ (pre.state.kind = "Moving" /\ PreElapsed < pre.state.duration)
             => state = pre.state

\* the cache moved, the segment did not
C26_Witness ==
    /\ op = "update"
    /\ pre.state.kind = "Moving"
    /\ PreElapsed < pre.state.duration
    /\ state = pre.state
    /\ current_screen_pos # pre.screen_pos
    /\ current_grid_pos # <<0, 0>>

(***************************************************************************)
(* C27: the `from` of every newly installed segment is the last position   *)
(* returned by update, or the controller's initial screen position if      *)
(* update has returned none yet, for any number of commands handled        *)
(* between two ticks.                                                      *)
(***************************************************************************)
C27_FromIsLastEmitted ==
    (Handled /\ ~panicked /\ current_grid_pos # pre.grid_pos)
    => state.from = IF emitted = <<>>
                    THEN <<Frac(1, 2), Frac(1, 2)>>
                    ELSE emitted[1]

\* the second of two commands handled since the last tick re-targets
C27_Witness ==
    /\ Handled
    /\ current_grid_pos # pre.grid_pos
    /\ pre.state.kind = "Moving"
    /\ pre.tick_time = <<>>
    /\ emitted # <<>>
    /\ state.from = emitted[1]
    /\ state.from # pre.state.to

(***************************************************************************)
(* C28: within one segment, for two update calls at instants t1 <= t2 the  *)
(* position returned at t2 is on each axis at least as close to the        *)
(* segment's `to` as the one returned at t1, and every returned position   *)
(* lies between `from` and `to` on each axis.                              *)
(***************************************************************************)
FAbs(a) == <<Abs(a[1]), a[2]>>

Within(a, x, b) ==
    \/ FLeq(a, x) /\ FLeq(x, b)
    \/ FLeq(b, x) /\ FLeq(x, a)

NoFarther(x, y, to) == FLeq(FAbs(FSub(to, x)), FAbs(FSub(to, y)))

Approaches ==
    (op = "update" /\ pre.state.kind = "Moving")
    => LET seg == pre.state
       IN /\ \A i \in 1..2 : Within(seg.from[i], ret.val[i], seg.to[i])
          /\ pre.tick_time # <<>>
                => \A i \in 1..2 :
                      NoFarther(ret.val[i], pre.screen_pos[i], seg.to[i])

C28_MonotoneApproach == Approaches

\* on segments whose positions are numbers the outputs do approach `to`
MonotoneOnFiniteSegments ==
    (pre.state.kind = "Moving" /\ IsFinite(pre.state.from) /\ IsFinite(pre.state.to))
    => Approaches

(***************************************************************************)
(* C29: update never touches the shared configuration: while the watcher   *)
(* holds the write lock, ticks advance and complete a segment exactly as   *)
(* with the lock free; only handle_event is affected by the lock, and it   *)
(* never waits for it.                                                     *)
(***************************************************************************)
C29_UpdateIgnoresLock ==
    /\ op = "update"
          => /\ config = pre.config
             /\ writer = pre.writer
             /\ pre.state.kind = "Idle" => (ret = None /\ state = Idle)
             /\ pre.state.kind = "Moving"
                   => /\ ret = Some(PositionAt(pre.state, PreElapsed))
                      /\ current_screen_pos = PositionAt(pre.state, PreElapsed)
                      /\ state = IF PreElapsed >= pre.state.duration
                                 THEN Idle
                                 ELSE pre.state
    /\ (op = "handle_event" /\ pre.writer)
          => (ControllerUnchanged /\ writer /\ now = pre.now)

\* a segment completed by a tick while the write lock was held
C29_Witness ==
    /\ op = "update"
    /\ pre.writer
    /\ writer
    /\ pre.state.kind = "Moving"
    /\ state = Idle
    /\ ret = Some(pre.state.to)

(***************************************************************************)
(* C30: under an unchanging configuration, in every reachable state from   *)
(* a freshly created controller, the destination screen position (the      *)
(* segment's `to` while Moving, the current screen position while Idle)    *)
(* is the screen position derived from the current grid position.          *)
(***************************************************************************)
Destination == IF state.kind = "Moving" THEN state.to ELSE current_screen_pos

C30_DestinationMatchesGrid ==
    ~panicked
    => Destination = <<Frac(current_grid_pos[1], config.cols - 1),
                       Frac(current_grid_pos[2], config.rows - 1)>>

(***************************************************************************)
(* C31: if the controller is Moving, no further command is handled, time   *)
(* keeps advancing and update keeps being called, then the controller      *)
(* eventually becomes Idle with the current screen position equal to the   *)
(* segment's `to`; the transition happens at the first update whose        *)
(* elapsed time is >= duration, however many ticks were skipped before.    *)
(***************************************************************************)
Arrived ==
    /\ op = "update"
    /\ pre.state.kind = "Moving"
    /\ state = Idle
    /\ current_screen_pos = pre.state.to

C31_MovingLeadsToIdle ==
    /\ (state.kind = "Moving" /\ op # "handle_event")
          ~> (Arrived \/ op = "handle_event")
    /\ []((op = "update" /\ pre.state.kind = "Moving")
             => /\ state = Idle <=> PreElapsed >= pre.state.duration
                /\ state = Idle => Arrived)

\* a segment completed by its first update, one clock step past its end
C31_Witness ==
    /\ Arrived
    /\ pre.tick_time = <<>>
    /\ pre.state.duration > 0
    /\ PreElapsed > pre.state.duration

(***************************************************************************)
(* C32: with tween_ms = 0 a command that changes the grid cell installs a  *)
(* zero-duration segment, and the first update after it returns exactly    *)
(* the target position and moves the state to Idle, without evaluating     *)
(* elapsed/duration (no division by zero).                                 *)
(***************************************************************************)
C32_ZeroDurationSegment ==
    /\ (Handled /\ pre.config.tween_ms = 0 /\ current_grid_pos # pre.grid_pos)
          => /\ state.kind = "Moving"
             /\ state.duration = 0
             /\ state.to = grid_to_screen(current_grid_pos, pre.config)
    /\ (op = "update" /\ pre.state.kind = "Moving" /\ pre.state.duration = 0)
          => /\ ret = Some(pre.state.to)
             /\ IsFinite(ret.val)
             /\ current_screen_pos = pre.state.to
             /\ state = Idle

\* the update at the very instant of the command ends the segment
C32_Witness ==
    /\ op = "update"
    /\ pre.state.kind = "Moving"
    /\ pre.state.duration = 0
    /\ PreElapsed = 0
    /\ pre.tick_time = <<>>
    /\ state = Idle
    /\ ret = Some(pre.state.to)
    /\ pre.state.to # pre.state.from

====
